---------------------------- MODULE Spec2Model ----------------------------
(***************************************************************************)
(* A model of panel4all.PollResults (src/panel4all/pollresults.py): the    *)
(* construction of the in-memory indices from four tables, and the query   *)
(* operations over them.                                                   *)
(*                                                                         *)
(* Conventions.                                                            *)
(*  - A table is a sequence of rows; a row is a function from column names *)
(*    to cell values.  A blank cell (pandas NaN) is the value NaN.         *)
(*  - A Python dict is a record [keys, val]: keys is the sequence of keys  *)
(*    in insertion order, val the function from keys to values.            *)
(*  - An optional argument is a set: {} is None, {x} is the value x.       *)
(*  - What a call does is an outcome: [kind |-> "return", type, value] or  *)
(*    [kind |-> "raise", error].                                           *)
(*  - A percentage is kept in hundredths (5000 is 50.0), a median doubled  *)
(*    (3 is 1.5), so that both stay integers.                              *)
(***************************************************************************)
EXTENDS Integers, Sequences, FiniteSets, TLC

VARIABLES
    variable_information_table,   \* input: rows [Variable, Label]
    variable_values_table,        \* input: rows <<question code, answer code, answer label>>
    results_closed_questions,     \* input: [columns, rows]
    results_open_questions,       \* input: [columns, rows]
    map_question_code_to_label,
    map_question_code_to_map_answer_code_to_label,
    map_voter_id_to_closed_answers,
    voter_ids,
    map_voter_id_to_open_answers,
    question_code,                \* __init__'s loop variable of the same name
    row_index,                    \* position of the loop over variable_values_table
    pc,                           \* where __init__ stands, then "ready" or "failed"
    ret                           \* the last query and its outcome

vars == <<variable_information_table, variable_values_table,
          results_closed_questions, results_open_questions,
          map_question_code_to_label,
          map_question_code_to_map_answer_code_to_label,
          map_voter_id_to_closed_answers, voter_ids,
          map_voter_id_to_open_answers, question_code, row_index, pc, ret>>

inputs == <<variable_information_table, variable_values_table,
            results_closed_questions, results_open_questions>>

indices == <<map_question_code_to_label,
             map_question_code_to_map_answer_code_to_label,
             map_voter_id_to_closed_answers, voter_ids,
             map_voter_id_to_open_answers>>

-----------------------------------------------------------------------------
(* Bounds of the model. *)

MaxValueRows == 3      \* rows of the variable-values table
MaxQuestions == 2      \* rows of the variable-information table
MaxVoters == 3         \* rows of the closed-answers table
MaxValue == 2          \* raw answer codes are 0..MaxValue

-----------------------------------------------------------------------------
(* Values. *)

NaN == "NaN"                  \* a blank cell
Unbound == "<unbound>"        \* a local variable not yet assigned
None == {}
Some(x) == {x}
The(opt) == CHOOSE x \in opt : TRUE

Return(t, v) == [kind |-> "return", type |-> t, value |-> v]
Raise(e) == [kind |-> "raise", error |-> e]

Range(s) == {s[i] : i \in DOMAIN s}

AllSeqs(S, n) == UNION {[1..k -> S] : k \in 0..n}

(* Python dicts: insertion-ordered, a repeated key keeps its place and    *)
(* takes the new value.                                                    *)
EmptyDict == [keys |-> <<>>, val |-> <<>>]

DictHas(d, k) == k \in DOMAIN d.val

DictPut(d, k, v) ==
    [keys |-> IF DictHas(d, k) THEN d.keys ELSE Append(d.keys, k),
     val  |-> [x \in (DOMAIN d.val) \cup {k} |-> IF x = k THEN v ELSE d.val[x]]]

(* {k: v for k, v in pairs}, the pairs taken in order *)
RECURSIVE DictOfPairs(_)
DictOfPairs(pairs) ==
    IF pairs = <<>> THEN EmptyDict
    ELSE LET n == Len(pairs)
         IN  DictPut(DictOfPairs(SubSeq(pairs, 1, n - 1)), pairs[n][1], pairs[n][2])

(* str.startswith *)
startswith(q, prefix) ==
    /\ Len(prefix) <= Len(q)
    /\ SubSeq(q, 1, Len(prefix)) = prefix

(* re.sub(':? ?', '', x): the pattern matches at every position, and      *)
(* consumes a colon, a space, or a colon followed by a space.              *)
RECURSIVE StripColonSpace(_)
StripColonSpace(x) ==
    IF Len(x) = 0 THEN ""
    ELSE LET c == SubSeq(x, 1, 1)
             rest == StripColonSpace(SubSeq(x, 2, Len(x)))
         IN  IF c = ":" \/ c = " " THEN rest ELSE c \o rest

-----------------------------------------------------------------------------
(* PollResults.__init__ *)

(* lines 25-27: the question-label mapping from the Variable and Label     *)
(* columns of the variable-information table                               *)
LoadVariableInformation ==
    /\ pc = "variable_information"
    /\ map_question_code_to_label' =
           DictOfPairs([i \in DOMAIN variable_information_table |->
                          <<variable_information_table[i].Variable,
                            variable_information_table[i].Label>>])
    /\ row_index' = 1
    /\ pc' = "variable_values"
    /\ UNCHANGED <<inputs, map_question_code_to_map_answer_code_to_label,
                   map_voter_id_to_closed_answers, voter_ids,
                   map_voter_id_to_open_answers, question_code, ret>>

(* a loader that files a blank-coded row under the blank itself *)
CurrentQuestionCode_NoFill(question_code_raw, previous) == question_code_raw

(* lines 34-38: the question code the row counts for *)
CurrentQuestionCode(question_code_raw, previous) ==
    IF question_code_raw = NaN THEN previous ELSE question_code_raw

(* line 41: map[question_code][answer_code] = answer_label on a            *)
(* defaultdict(dict)                                                       *)
PutAnswerLabel(map, qc, answer_code, answer_label) ==
    LET inner == IF DictHas(map, qc) THEN map.val[qc] ELSE EmptyDict
    IN  DictPut(map, qc, DictPut(inner, answer_code, answer_label))

(* lines 33-41: one iteration of the loop over the variable-values table.  *)
(* A blank question code in the first row reads question_code before it is *)
(* assigned: UnboundLocalError, and the construction fails.                *)
VariableValuesRow ==
    /\ pc = "variable_values"
    /\ row_index <= Len(variable_values_table)
    /\ LET row == variable_values_table[row_index]
           qc == CurrentQuestionCode(row[1], question_code)
       IN  IF qc = Unbound
           THEN /\ pc' = "failed"
                /\ UNCHANGED <<question_code, row_index,
                               map_question_code_to_map_answer_code_to_label>>
           ELSE /\ question_code' = qc
                /\ map_question_code_to_map_answer_code_to_label' =
                       PutAnswerLabel(map_question_code_to_map_answer_code_to_label,
                                      qc, row[2], row[3])
                /\ row_index' = row_index + 1
                /\ pc' = pc
    /\ UNCHANGED <<inputs, map_question_code_to_label,
                   map_voter_id_to_closed_answers, voter_ids,
                   map_voter_id_to_open_answers, ret>>

(* lines 42-50: the loop is over; the closed-answer index keyed by         *)
(* int(row["id"]) and the list of its keys                                 *)
LoadClosedQuestions ==
    /\ pc = "variable_values"
    /\ row_index > Len(variable_values_table)
    /\ LET rows == results_closed_questions.rows
           index == DictOfPairs([i \in DOMAIN rows |-> <<rows[i]["id"], rows[i]>>])
       IN  /\ map_voter_id_to_closed_answers' = index
           /\ voter_ids' = index.keys
    /\ pc' = "open_questions"
    /\ UNCHANGED <<inputs, map_question_code_to_label,
                   map_question_code_to_map_answer_code_to_label,
                   map_voter_id_to_open_answers, question_code, row_index, ret>>

(* line 53: the open-answers table with its column names normalised *)
RenameColumns(table) ==
    [columns |-> [i \in DOMAIN table.columns |-> StripColonSpace(table.columns[i])],
     rows |-> [i \in DOMAIN table.rows |->
                 LET r == table.rows[i]
                     newCols == {StripColonSpace(c) : c \in DOMAIN r}
                 IN  [n \in newCols |->
                         r[CHOOSE c \in DOMAIN r : StripColonSpace(c) = n]]]]

(* lines 52-55: the open-answer index keyed by int(row["user_ID"]) *)
LoadOpenQuestions ==
    /\ pc = "open_questions"
    /\ results_open_questions' = RenameColumns(results_open_questions)
    /\ LET rows == RenameColumns(results_open_questions).rows
       IN  map_voter_id_to_open_answers' =
               DictOfPairs([i \in DOMAIN rows |-> <<rows[i]["user_ID"], rows[i]>>])
    /\ pc' = "ready"
    /\ UNCHANGED <<variable_information_table, variable_values_table,
                   results_closed_questions, map_question_code_to_label,
                   map_question_code_to_map_answer_code_to_label,
                   map_voter_id_to_closed_answers, voter_ids,
                   question_code, row_index, ret>>

Load ==
    \/ LoadVariableInformation
    \/ VariableValuesRow
    \/ LoadClosedQuestions
    \/ LoadOpenQuestions

-----------------------------------------------------------------------------
(* The query operations, as functions of the indices. *)

(* list[i]: Python counts a negative index from the end *)
PyIndex(list, i) ==
    IF 0 <= i /\ i < Len(list) THEN Return("int", list[i + 1])
    ELSE IF i < 0 /\ -i <= Len(list) THEN Return("int", list[Len(list) + i + 1])
    ELSE Raise("IndexError")

(* a resolver in which a usable index beats the explicit id *)
voter_id_IndexWins(voter_index, voter_id_arg) ==
    IF voter_id_arg = None \/ PyIndex(voter_ids, voter_index).kind = "return"
    THEN PyIndex(voter_ids, voter_index)
    ELSE Return("int", The(voter_id_arg))

(* lines 69-78 *)
voter_id(voter_index, voter_id_arg) ==
    IF voter_id_arg = None
    THEN PyIndex(voter_ids, voter_index)
    ELSE Return("int", The(voter_id_arg))

(* a selection that keeps a code only when it is the question code itself  *)
(* or continues it with an underscore                                      *)
SelectPrefixed_Separated(codes, prefix) ==
    SelectSeq(codes, LAMBDA q : q = prefix \/ startswith(q, prefix \o "_"))

(* lines 80-84 and 236-240: the keys of the question-label mapping, in     *)
(* their order, that start with question_code                              *)
RECURSIVE SelectPrefixed(_, _)
SelectPrefixed(codes, prefix) ==
    IF codes = <<>> THEN <<>>
    ELSE LET n == Len(codes)
             front == SelectPrefixed(SubSeq(codes, 1, n - 1), prefix)
         IN  IF startswith(codes[n], prefix) THEN Append(front, codes[n]) ELSE front

subquestion_codes(qcode) ==
    SelectPrefixed(map_question_code_to_label.keys, qcode)

(* a translation that ignores the voter's code and takes the first label *)
SingleAnswer_FirstLabel(qcode, voter_closed_answers) ==
    LET labels == map_question_code_to_map_answer_code_to_label
    IN  IF ~DictHas(labels, qcode) THEN Raise("KeyError")
        ELSE IF ~DictHas(labels.val[qcode], voter_closed_answers[qcode])
        THEN Raise("KeyError")
        ELSE Return("str", labels.val[qcode].val[labels.val[qcode].keys[1]])

(* lines 99-100: the single-answer branch *)
SingleAnswer(qcode, voter_closed_answers) ==
    LET voter_answer == voter_closed_answers[qcode]
        labels == map_question_code_to_map_answer_code_to_label
    IN  IF ~DictHas(labels, qcode) THEN Raise("KeyError")
        ELSE IF ~DictHas(labels.val[qcode], voter_answer) THEN Raise("KeyError")
        ELSE Return("str", labels.val[qcode].val[voter_answer])

(* a multi-answer mapping keyed by sub-question code instead of label *)
MultiAnswer_ByCode(codes, voter_closed_answers) ==
    IF \E i \in DOMAIN codes : codes[i] \notin DOMAIN voter_closed_answers
    THEN Raise("KeyError")
    ELSE Return("dict",
                DictOfPairs([i \in DOMAIN codes |->
                               <<codes[i], voter_closed_answers[codes[i]]>>]))

(* line 104: {label[code]: voter_closed_answers[code] for code in          *)
(* subquestion_codes}                                                      *)
MultiAnswer(codes, voter_closed_answers) ==
    IF \E i \in DOMAIN codes : codes[i] \notin DOMAIN voter_closed_answers
    THEN Raise("KeyError")
    ELSE Return("dict",
                DictOfPairs([i \in DOMAIN codes |->
                               <<map_question_code_to_label.val[codes[i]],
                                 voter_closed_answers[codes[i]]>>]))

(* a dispatch that answers an unknown question with an empty mapping *)
AnswerOfVoter_EmptyMap(qcode, id) ==
    IF ~DictHas(map_voter_id_to_closed_answers, id) THEN Raise("KeyError")
    ELSE LET voter_closed_answers == map_voter_id_to_closed_answers.val[id]
         IN  IF qcode \in DOMAIN voter_closed_answers
             THEN SingleAnswer(qcode, voter_closed_answers)
             ELSE MultiAnswer(subquestion_codes(qcode), voter_closed_answers)

(* lines 97-106, for a voter id already resolved *)
AnswerOfVoter(qcode, id) ==
    IF ~DictHas(map_voter_id_to_closed_answers, id) THEN Raise("KeyError")
    ELSE LET voter_closed_answers == map_voter_id_to_closed_answers.val[id]
         IN  IF qcode \in DOMAIN voter_closed_answers
             THEN SingleAnswer(qcode, voter_closed_answers)
             ELSE IF Len(subquestion_codes(qcode)) > 0
             THEN MultiAnswer(subquestion_codes(qcode), voter_closed_answers)
             ELSE Raise("ValueError")

(* lines 86-106 *)
get_voter_answer(qcode, voter_index, voter_id_arg) ==
    LET id == voter_id(voter_index, voter_id_arg)
    IN  IF id.kind = "raise" THEN id ELSE AnswerOfVoter(qcode, id.value)

(* an insertion that puts a key before the keys of equal value *)
RECURSIVE InsertByKey_Unstable(_, _, _)
InsertByKey_Unstable(sorted, k, key) ==
    IF sorted = <<>> THEN <<k>>
    ELSE LET n == Len(sorted)
         IN  IF key[sorted[n]] < key[k] THEN Append(sorted, k)
             ELSE Append(InsertByKey_Unstable(SubSeq(sorted, 1, n - 1), k, key),
                         sorted[n])

(* sorted(keys, key=d.__getitem__): a stable sort, here by insertion *)
RECURSIVE InsertByKey(_, _, _)
InsertByKey(sorted, k, key) ==
    IF sorted = <<>> THEN <<k>>
    ELSE LET n == Len(sorted)
         IN  IF key[sorted[n]] <= key[k] THEN Append(sorted, k)
             ELSE Append(InsertByKey(SubSeq(sorted, 1, n - 1), k, key), sorted[n])

RECURSIVE SortedByKey(_, _)
SortedByKey(keys, key) ==
    IF keys = <<>> THEN <<>>
    ELSE LET n == Len(keys)
         IN  InsertByKey(SortedByKey(SubSeq(keys, 1, n - 1), key), keys[n], key)

(* lines 108-119 *)
get_voter_answer_rank(qcode, voter_index, voter_id_arg) ==
    LET id == voter_id(voter_index, voter_id_arg)
    IN  IF id.kind = "raise" THEN id
        ELSE LET map_question_label_to_rank == get_voter_answer(qcode, 0, Some(id.value))
             IN  IF map_question_label_to_rank.kind = "raise"
                 THEN map_question_label_to_rank
                 ELSE IF map_question_label_to_rank.type # "dict"
                 THEN Raise("AttributeError")
                 ELSE Return("list",
                             SortedByKey(map_question_label_to_rank.value.keys,
                                         map_question_label_to_rank.value.val))

(* a checkbox that counts a zero as ticked *)
Approved_NonNegative(d) == {label \in DOMAIN d.val : d.val[label] >= 0}

(* line 132: {label for label, answer in d.items() if answer > 0} *)
Approved(d) == {label \in DOMAIN d.val : d.val[label] > 0}

(* lines 121-132 *)
get_voter_answer_approval(qcode, voter_index, voter_id_arg) ==
    LET id == voter_id(voter_index, voter_id_arg)
    IN  IF id.kind = "raise" THEN id
        ELSE LET map_question_label_to_rank == get_voter_answer(qcode, 0, Some(id.value))
             IN  IF map_question_label_to_rank.kind = "raise"
                 THEN map_question_label_to_rank
                 ELSE IF map_question_label_to_rank.type # "dict"
                 THEN Raise("AttributeError")
                 ELSE Return("set", Approved(map_question_label_to_rank.value))

(* lines 134-150: the single-voter operation over voter_ids, in order; the *)
(* first voter whose call raises ends the comprehension                    *)
BatchOutcome(outs) ==
    IF \E i \in DOMAIN outs : outs[i].kind = "raise"
    THEN outs[CHOOSE i \in DOMAIN outs :
                 /\ outs[i].kind = "raise"
                 /\ \A j \in 1..(i - 1) : outs[j].kind = "return"]
    ELSE Return("list", [i \in DOMAIN outs |-> outs[i].value])

get_voter_answers(qcode) ==
    BatchOutcome([i \in DOMAIN voter_ids |->
                    get_voter_answer(qcode, 0, Some(voter_ids[i]))])

get_voter_answers_rank(qcode) ==
    BatchOutcome([i \in DOMAIN voter_ids |->
                    get_voter_answer_rank(qcode, 0, Some(voter_ids[i]))])

get_voter_answers_approval(qcode) ==
    BatchOutcome([i \in DOMAIN voter_ids |->
                    get_voter_answer_approval(qcode, 0, Some(voter_ids[i]))])

-----------------------------------------------------------------------------
(* frequency_dict *)

NoQuery == [op |-> "None", column |-> "", value |-> 0]

(* line 198: DataFrame.query("<column>==<value>") or "<column>!=<value>";  *)
(* a name that is no column is an UndefinedVariableError                   *)
RECURSIVE SelectRows(_, _)
SelectRows(rows, query) ==
    IF rows = <<>> THEN <<>>
    ELSE LET n == Len(rows)
             front == SelectRows(SubSeq(rows, 1, n - 1), query)
             hit == IF query.op = "==" THEN rows[n][query.column] = query.value
                    ELSE rows[n][query.column] # query.value
         IN  IF hit THEN Append(front, rows[n]) ELSE front

(* numpy's round: to the nearest, a tie to the even neighbour *)
RoundHalfEven(num, den) ==
    LET q == num \div den
        r == num % den
    IN  IF 2 * r < den THEN q
        ELSE IF 2 * r > den THEN q + 1
        ELSE IF q % 2 = 0 THEN q ELSE q + 1

(* line 199: groupby(question_code).count()["id"] / len(results) * 100,    *)
(* rounded to 2 decimals; in hundredths of a percent.  The division is     *)
(* element by element: with no row there is no group and nothing divided.  *)
FrequencySeries(rows, qcode) ==
    [k \in {rows[i][qcode] : i \in DOMAIN rows} |->
        RoundHalfEven(Cardinality({i \in DOMAIN rows : rows[i][qcode] = k}) * 100 * 100,
                      Len(rows))]

(* twice the median of a non-empty column *)
Median2(values) ==
    LET n == Len(values)
        order == SortedByKey([i \in 1..n |-> i], values)
        s == [i \in 1..n |-> values[order[i]]]
    IN  IF n % 2 = 1 THEN 2 * s[(n + 1) \div 2]
        ELSE s[n \div 2] + s[n \div 2 + 1]

(* a lookup that gives the median of no row an empty label *)
MedianLabel_EmptyOk(map_answer_code_to_label, values) ==
    IF values = <<>> THEN Return("str", "")
    ELSE IF Median2(values) % 2 = 1 THEN Raise("KeyError")
    ELSE IF ~DictHas(map_answer_code_to_label, Median2(values) \div 2)
    THEN Raise("KeyError")
    ELSE Return("str", map_answer_code_to_label.val[Median2(values) \div 2])

(* line 202: map_answer_code_to_label[median]; the median of no row is NaN *)
(* and a median between two codes is no key                                *)
MedianLabel(map_answer_code_to_label, values) ==
    IF values = <<>> THEN Raise("KeyError")
    ELSE IF Median2(values) % 2 = 1 THEN Raise("KeyError")
    ELSE IF ~DictHas(map_answer_code_to_label, Median2(values) \div 2)
    THEN Raise("KeyError")
    ELSE Return("str", map_answer_code_to_label.val[Median2(values) \div 2])

(* lines 188-203.  The returned dict is the record [title, frequency,      *)
(* median]: its first key with the title, the frequency of each answer     *)
(* code, and its last key with the label of the median.                    *)
frequency_dict(qcode, query, title) ==
    LET labels == map_question_code_to_map_answer_code_to_label
        columns == Range(results_closed_questions.columns)
    IN  IF ~DictHas(labels, qcode) THEN Raise("KeyError")
        ELSE IF query.op # "None" /\ query.column \notin columns
        THEN Raise("UndefinedVariableError")
        ELSE LET results == IF query.op = "None" THEN results_closed_questions.rows
                            ELSE SelectRows(results_closed_questions.rows, query)
                 median == MedianLabel(labels.val[qcode],
                                       [i \in DOMAIN results |-> results[i][qcode]])
             IN  IF qcode \notin columns \/ qcode = "id" THEN Raise("KeyError")
                 ELSE IF median.kind = "raise" THEN median
                 ELSE Return("dict", [title |-> title,
                                      frequency |-> FrequencySeries(results, qcode),
                                      median |-> median.value])

-----------------------------------------------------------------------------
(* What a query leaves in the indices.  The only index a query subscripts  *)
(* with a key that may be missing is the answer-label mapping.             *)

(* a mapping left as the defaultdict(dict) of line 32: d[k] on a missing   *)
(* key stores an empty dict under k                                        *)
AfterGetItem_DefaultDict(d, k) ==
    IF DictHas(d, k) THEN d ELSE DictPut(d, k, EmptyDict)

(* line 42: the mapping is stored as a plain dict, and d[k] on a plain     *)
(* dict stores nothing, whether it returns or raises KeyError              *)
AfterGetItem(d, k) == d

(* line 100 is reached when the voter resolves to a key of the             *)
(* closed-answer index and question_code is a column                       *)
ReachesAnswerLabels(qcode, voter_index, voter_id_arg) ==
    LET id == voter_id(voter_index, voter_id_arg)
    IN  /\ id.kind = "return"
        /\ DictHas(map_voter_id_to_closed_answers, id.value)
        /\ qcode \in DOMAIN map_voter_id_to_closed_answers.val[id.value]

(* lines 134-150: a batch reaches line 100 with its first voter *)
BatchReachesAnswerLabels(qcode) ==
    /\ voter_ids # <<>>
    /\ ReachesAnswerLabels(qcode, 0, Some(voter_ids[1]))

(* the answer-label mapping after a query on question_code *)
AnswerLabelsAfter(reached, qcode) ==
    IF reached
    THEN AfterGetItem(map_question_code_to_map_answer_code_to_label, qcode)
    ELSE map_question_code_to_map_answer_code_to_label

(* every index but the answer-label mapping *)
plain_indices == <<map_question_code_to_label, map_voter_id_to_closed_answers,
                   voter_ids, map_voter_id_to_open_answers>>

-----------------------------------------------------------------------------
(* The calls a client makes once the object is constructed.  A call leaves *)
(* its outcome in ret; the client takes it and may call again.             *)

QuestionCodeArgs == {"", "id", "Q2", "Q6", "Q6_", "Q6_1", "Q7"}
VoterIdUniverse == {300, 301, 302}
VoterIndexArgs == -1..MaxVoters
VoterIdArgs == {None} \cup {Some(x) : x \in VoterIdUniverse}
VoterArgs == VoterIndexArgs \X VoterIdArgs
QueryArgs == {NoQuery} \cup
             {[op |-> o, column |-> "col_10", value |-> 1] : o \in {"==", "!="}} \cup
             {[op |-> "==", column |-> "religion", value |-> 1]}
TitleArgs == {None, Some("title")}

Call(op, qcode, voter_index, voter_id_arg, out) ==
    [op |-> op, question_code |-> qcode, voter_index |-> voter_index,
     voter_id |-> voter_id_arg, out |-> out]

NoCall == [op |-> "none"]

VoterId ==
    /\ pc = "ready"
    /\ \E v \in VoterArgs :
           ret' = Call("voter_id", "", v[1], v[2], voter_id(v[1], v[2]))
    /\ pc' = "returned"
    /\ UNCHANGED <<inputs, indices, question_code, row_index>>

SubquestionCodes ==
    /\ pc = "ready"
    /\ \E c \in QuestionCodeArgs :
           ret' = Call("subquestion_codes", c, 0, None,
                       Return("list", subquestion_codes(c)))
    /\ pc' = "returned"
    /\ UNCHANGED <<inputs, indices, question_code, row_index>>

GetVoterAnswer ==
    /\ pc = "ready"
    /\ \E c \in QuestionCodeArgs, v \in VoterArgs :
           /\ ret' = Call("get_voter_answer", c, v[1], v[2],
                          get_voter_answer(c, v[1], v[2]))
           /\ map_question_code_to_map_answer_code_to_label' =
                  AnswerLabelsAfter(ReachesAnswerLabels(c, v[1], v[2]), c)
    /\ pc' = "returned"
    /\ UNCHANGED <<inputs, plain_indices, question_code, row_index>>

GetVoterAnswerRank ==
    /\ pc = "ready"
    /\ \E c \in QuestionCodeArgs, v \in VoterArgs :
           /\ ret' = Call("get_voter_answer_rank", c, v[1], v[2],
                          get_voter_answer_rank(c, v[1], v[2]))
           /\ map_question_code_to_map_answer_code_to_label' =
                  AnswerLabelsAfter(ReachesAnswerLabels(c, v[1], v[2]), c)
    /\ pc' = "returned"
    /\ UNCHANGED <<inputs, plain_indices, question_code, row_index>>

GetVoterAnswerApproval ==
    /\ pc = "ready"
    /\ \E c \in QuestionCodeArgs, v \in VoterArgs :
           /\ ret' = Call("get_voter_answer_approval", c, v[1], v[2],
                          get_voter_answer_approval(c, v[1], v[2]))
           /\ map_question_code_to_map_answer_code_to_label' =
                  AnswerLabelsAfter(ReachesAnswerLabels(c, v[1], v[2]), c)
    /\ pc' = "returned"
    /\ UNCHANGED <<inputs, plain_indices, question_code, row_index>>

GetVoterAnswers ==
    /\ pc = "ready"
    /\ \E c \in QuestionCodeArgs :
           /\ ret' = Call("get_voter_answers", c, 0, None, get_voter_answers(c))
           /\ map_question_code_to_map_answer_code_to_label' =
                  AnswerLabelsAfter(BatchReachesAnswerLabels(c), c)
    /\ pc' = "returned"
    /\ UNCHANGED <<inputs, plain_indices, question_code, row_index>>

GetVoterAnswersRank ==
    /\ pc = "ready"
    /\ \E c \in QuestionCodeArgs :
           /\ ret' = Call("get_voter_answers_rank", c, 0, None,
                          get_voter_answers_rank(c))
           /\ map_question_code_to_map_answer_code_to_label' =
                  AnswerLabelsAfter(BatchReachesAnswerLabels(c), c)
    /\ pc' = "returned"
    /\ UNCHANGED <<inputs, plain_indices, question_code, row_index>>

GetVoterAnswersApproval ==
    /\ pc = "ready"
    /\ \E c \in QuestionCodeArgs :
           /\ ret' = Call("get_voter_answers_approval", c, 0, None,
                          get_voter_answers_approval(c))
           /\ map_question_code_to_map_answer_code_to_label' =
                  AnswerLabelsAfter(BatchReachesAnswerLabels(c), c)
    /\ pc' = "returned"
    /\ UNCHANGED <<inputs, plain_indices, question_code, row_index>>

FrequencyDict ==
    /\ pc = "ready"
    /\ \E c \in QuestionCodeArgs, q \in QueryArgs, t \in TitleArgs :
           /\ ret' = [op |-> "frequency_dict", question_code |-> c, query |-> q,
                      title |-> t, out |-> frequency_dict(c, q, t)]
           /\ map_question_code_to_map_answer_code_to_label' =
                  AnswerLabelsAfter(TRUE, c)
    /\ pc' = "returned"
    /\ UNCHANGED <<inputs, plain_indices, question_code, row_index>>

(* the client has the outcome, by value or by exception, and goes on *)
Resume ==
    /\ pc = "returned"
    /\ pc' = "ready"
    /\ ret' = NoCall
    /\ UNCHANGED <<inputs, indices, question_code, row_index>>

Answers ==
    \/ GetVoterAnswer
    \/ GetVoterAnswerRank
    \/ GetVoterAnswerApproval

Queries ==
    \/ VoterId
    \/ SubquestionCodes
    \/ Answers
    \/ GetVoterAnswers
    \/ GetVoterAnswersRank
    \/ GetVoterAnswersApproval
    \/ FrequencyDict

Next == Load \/ Queries \/ Resume

-----------------------------------------------------------------------------
(* The polls the specifications range over. *)

Labels == {"X", "Y"}
AnswerLabels == {"PartyA", "PartyB"}

InfoScenario ==
    << [Variable |-> "Q2", Label |-> "Which party?"],
       [Variable |-> "Q6_1", Label |-> "X"],
       [Variable |-> "Q6_2", Label |-> "Y"] >>

ValuesScenario == << <<"Q2", 1, "PartyA">>, <<NaN, 2, "PartyB">> >>

ClosedColumns == <<"id", "Q2", "Q6_1", "Q6_2", "col_10">>

ClosedRow(id, q2, q6_1, q6_2, religion) ==
    [c \in Range(ClosedColumns) |->
        CASE c = "id" -> id
          [] c = "Q2" -> q2
          [] c = "Q6_1" -> q6_1
          [] c = "Q6_2" -> q6_2
          [] OTHER -> religion]

ClosedScenario ==
    [columns |-> ClosedColumns, rows |-> << ClosedRow(300, 2, 2, 1, 1) >>]

OpenColumns == <<"user_ID", "Q1: ">>

OpenScenario ==
    [columns |-> OpenColumns,
     rows |-> << [c \in Range(OpenColumns) |-> IF c = "user_ID" THEN 300 ELSE 0] >>]

(* before __init__ runs: the four tables read, nothing built *)
Unbuilt ==
    /\ map_question_code_to_label = EmptyDict
    /\ map_question_code_to_map_answer_code_to_label = EmptyDict
    /\ map_voter_id_to_closed_answers = EmptyDict
    /\ voter_ids = <<>>
    /\ map_voter_id_to_open_answers = EmptyDict
    /\ question_code = Unbound
    /\ row_index = 0
    /\ pc = "variable_information"
    /\ ret = NoCall

(* every variable-values table of at most MaxValueRows rows; the other    *)
(* tables are those of the scenario                                        *)
ValueRows == {NaN, "Q2", "Q6"} \X (1..2) \X AnswerLabels

InitLoad ==
    /\ variable_information_table = InfoScenario
    /\ variable_values_table \in AllSeqs(ValueRows, MaxValueRows)
    /\ results_closed_questions = ClosedScenario
    /\ results_open_questions = OpenScenario
    /\ Unbuilt

SpecLoad == InitLoad /\ [][Load]_vars

(* every variable-information table of at most MaxQuestions rows over the  *)
(* codes of one multi-answer question, and every answer of voter 300 to    *)
(* the single-answer question or to the sub-questions                      *)
InfoRows == [Variable : {"Q6", "Q6_1", "Q6_2"}, Label : Labels]

AnswerRows ==
    {ClosedRow(300, q2, 1, 0, 1) : q2 \in 0..MaxValue} \cup
    {ClosedRow(300, 2, a, b, 1) : a, b \in 0..MaxValue}

InitAnswer ==
    /\ variable_information_table \in AllSeqs(InfoRows, MaxQuestions)
    /\ variable_values_table = ValuesScenario
    /\ \E r \in AnswerRows :
           results_closed_questions =
               [columns |-> ClosedColumns, rows |-> <<r, ClosedRow(301, 1, 1, 2, 2)>>]
    /\ results_open_questions = OpenScenario
    /\ Unbuilt

SpecAnswer == InitAnswer /\ [][Load \/ Answers \/ Resume]_vars

(* every variable-information table of at most MaxQuestions rows over      *)
(* codes of which one is a prefix of another, related or not (Q7 and Q70   *)
(* as Q1 and Q10), and two voters                                          *)
PrefixRows == [Variable : {"Q6_1", "Q6_2", "Q7", "Q70"}, Label : Labels]

InitSubquestions ==
    /\ variable_information_table \in AllSeqs(PrefixRows, MaxQuestions)
    /\ variable_values_table = ValuesScenario
    /\ results_closed_questions =
           [columns |-> ClosedColumns,
            rows |-> <<ClosedRow(300, 2, 2, 1, 1), ClosedRow(301, 1, 1, 2, 2)>>]
    /\ results_open_questions = OpenScenario
    /\ Unbuilt

SpecSubquestions ==
    InitSubquestions /\ [][Load \/ SubquestionCodes \/ GetVoterAnswer \/ Resume]_vars

(* every closed-answers table of at most MaxVoters rows, the voters        *)
(* numbered from 300 in load order, over the answers to Q2 and to the      *)
(* religion question; with and without labels for the id column            *)
ValuesWithId == << <<"Q2", 1, "PartyA">>, <<NaN, 2, "PartyB">>, <<"id", 300, "first">> >>

FrequencyRows == [Q2 : 0..MaxValue, col_10 : 1..2]

InitFrequency ==
    /\ variable_information_table = InfoScenario
    /\ variable_values_table \in {ValuesScenario, ValuesWithId}
    /\ \E answers \in AllSeqs(FrequencyRows, MaxVoters) :
           results_closed_questions =
               [columns |-> ClosedColumns,
                rows |-> [i \in DOMAIN answers |->
                            ClosedRow(299 + i, answers[i].Q2, 1, 0, answers[i].col_10)]]
    /\ results_open_questions = OpenScenario
    /\ Unbuilt

SpecFrequency == InitFrequency /\ [][Load \/ FrequencyDict \/ Resume]_vars

(* every sequence of at most MaxVoters voter ids, repeated ids included,   *)
(* as the id column of the closed-answers table                            *)
Init ==
    /\ variable_information_table = InfoScenario
    /\ variable_values_table = ValuesScenario
    /\ \E ids \in AllSeqs(VoterIdUniverse, MaxVoters) :
           results_closed_questions =
               [columns |-> ClosedColumns,
                rows |-> [i \in DOMAIN ids |->
                            ClosedRow(ids[i], 1 + (i % 2), i % 2, (i + 1) % 2, 1 + (i % 2))]]
    /\ results_open_questions = OpenScenario
    /\ Unbuilt

Spec == Init /\ [][Next]_vars

-----------------------------------------------------------------------------
(* What the claims speak of, read off the input tables. *)

Max(S) == CHOOSE x \in S : \A y \in S : y <= x
Min(S) == CHOOSE x \in S : \A y \in S : x <= y

Columns == Range(results_closed_questions.columns)
ClosedRows == results_closed_questions.rows

(* the code a variable-values row counts for under forward fill: that of   *)
(* the nearest row at or above it whose code is not blank                  *)
FilledCode(i) ==
    LET coded == {j \in 1..i : variable_values_table[j][1] # NaN}
    IN  IF coded = {} THEN Unbound ELSE variable_values_table[Max(coded)][1]

(* the last row that writes answer code a of question q *)
LastRowOf(q, a) ==
    Max({i \in DOMAIN variable_values_table :
            FilledCode(i) = q /\ variable_values_table[i][2] = a})

(* the ids of the closed-answers rows, and those ids without repetition,   *)
(* each where it first appears                                             *)
RowIds == [i \in DOMAIN ClosedRows |-> ClosedRows[i]["id"]]
FirstRows == {i \in DOMAIN RowIds : \A j \in 1..(i - 1) : RowIds[j] # RowIds[i]}
DistinctId(n) ==
    RowIds[CHOOSE i \in FirstRows : Cardinality({j \in FirstRows : j < i}) = n]

-----------------------------------------------------------------------------
(* C7.  Once the variable-values loop has run to its end, the answer-label *)
(* mapping has a key for exactly the forward-filled question codes of the  *)
(* rows; under each code it holds exactly the answer codes of the rows     *)
(* that count for that code; and each row's answer code carries the label  *)
(* of the last row that wrote it (its own label, unless a later row of the *)
(* same question repeats the answer code).                                 *)
C7_ForwardFill ==
    pc \in {"open_questions", "ready", "returned"} =>
        LET t == variable_values_table
            m == map_question_code_to_map_answer_code_to_label
        IN  /\ DOMAIN m.val = {FilledCode(i) : i \in DOMAIN t}
            /\ \A q \in DOMAIN m.val :
                   DOMAIN m.val[q].val =
                       {t[i][2] : i \in {j \in DOMAIN t : FilledCode(j) = q}}
            /\ \A i \in DOMAIN t :
                   m.val[FilledCode(i)].val[t[i][2]] =
                       t[LastRowOf(FilledCode(i), t[i][2])][3]

(* a loaded table in which a blank-coded row follows a coded one and       *)
(* another question follows the blank                                      *)
C7_Witness ==
    /\ pc = "ready"
    /\ Len(variable_values_table) = 3
    /\ variable_values_table[1][1] = "Q2"
    /\ variable_values_table[2][1] = NaN
    /\ variable_values_table[3][1] = "Q6"
    /\ variable_values_table[1][2] # variable_values_table[2][2]
    /\ Len(map_question_code_to_map_answer_code_to_label.val["Q2"].keys) = 2

-----------------------------------------------------------------------------
(* C6 as claimed.  voter_id(voter_index=i), i an index of a row of the     *)
(* closed-answers table, returns the id of row i in load order; with an    *)
(* explicit id it returns that id whatever the index; with neither it      *)
(* returns the id of the first row.                                        *)
C6_AsClaimed ==
    (pc = "returned" /\ ret.op = "voter_id") =>
        /\ (ret.voter_id = None /\ ret.voter_index \in 0..(Len(ClosedRows) - 1)) =>
               ret.out = Return("int", RowIds[ret.voter_index + 1])
        /\ ret.voter_id # None => ret.out = Return("int", The(ret.voter_id))

(* C6, amended.  voter_id(voter_index=i) returns the i-th distinct id of   *)
(* the closed-answers table, the ids taken where they first appear in load *)
(* order (the id of row i when no id repeats), and fails with IndexError   *)
(* from the number of distinct ids on; with an explicit id it returns      *)
(* that id whatever the index; index 0, the default, gives the id of the   *)
(* first row.                                                              *)
C6_VoterId ==
    (pc = "returned" /\ ret.op = "voter_id") =>
        /\ (ret.voter_id = None /\ ret.voter_index \in 0..(Cardinality(FirstRows) - 1)) =>
               ret.out = Return("int", DistinctId(ret.voter_index))
        /\ (ret.voter_id = None /\ ret.voter_index >= Cardinality(FirstRows)) =>
               ret.out = Raise("IndexError")
        /\ (ret.voter_id = None /\ ret.voter_index = 0 /\ ClosedRows # <<>>) =>
               ret.out = Return("int", RowIds[1])
        /\ ret.voter_id # None => ret.out = Return("int", The(ret.voter_id))

(* an index past a repeated id: rows 300, 300, 301 and index 1 *)
C6_Witness ==
    /\ pc = "returned"
    /\ ret.op = "voter_id"
    /\ ret.voter_id = None
    /\ ret.voter_index = 1
    /\ Len(ClosedRows) = 3
    /\ RowIds[1] = RowIds[2]
    /\ RowIds[3] # RowIds[1]
    /\ ret.out = Return("int", RowIds[3])

-----------------------------------------------------------------------------
(* Questions and voters, read off the input tables. *)

InfoTable == variable_information_table
KnownCodes == {InfoTable[i].Variable : i \in DOMAIN InfoTable}

(* a repeated Variable keeps the place of its first row and the label of   *)
(* its last                                                                *)
FirstPos(s) == Min({i \in DOMAIN InfoTable : InfoTable[i].Variable = s})
LabelOf(s) == InfoTable[Max({i \in DOMAIN InfoTable : InfoTable[i].Variable = s})].Label

SubQuestions(c) == {s \in KnownCodes : startswith(s, c)}
SubLabels(c) == {LabelOf(s) : s \in SubQuestions(c)}

(* among the sub-questions of c that bear label l, the first and the last  *)
(* in the order of the variable-information table                          *)
FirstWithLabel(c, l) ==
    CHOOSE s \in SubQuestions(c) :
        /\ LabelOf(s) = l
        /\ \A u \in SubQuestions(c) : LabelOf(u) = l => FirstPos(s) <= FirstPos(u)
LastWithLabel(c, l) ==
    CHOOSE s \in SubQuestions(c) :
        /\ LabelOf(s) = l
        /\ \A u \in SubQuestions(c) : LabelOf(u) = l => FirstPos(u) <= FirstPos(s)

InIndex(v) == \E i \in DOMAIN RowIds : RowIds[i] = v
StoredRow(v) == ClosedRows[Max({i \in DOMAIN RowIds : RowIds[i] = v})]

(* a call of op with voter_id=v, v an id of the closed-answer index *)
CalledFor(op) ==
    /\ pc = "returned"
    /\ ret.op = op
    /\ ret.voter_id # None
    /\ InIndex(The(ret.voter_id))

HasLabel(c, a) ==
    /\ DictHas(map_question_code_to_map_answer_code_to_label, c)
    /\ DictHas(map_question_code_to_map_answer_code_to_label.val[c], a)

MultiAnswerCode(c) == c \notin Columns /\ SubQuestions(c) # {}

-----------------------------------------------------------------------------
(* C1 as claimed.  For a voter id v of the closed-answer index and a       *)
(* column c of the closed-answers table (the id column left aside),        *)
(* get_voter_answer(c, voter_id=v) returns the label the answer-label      *)
(* mapping holds for c and the raw code stored for v in column c.          *)
C1_AsClaimed ==
    (CalledFor("get_voter_answer") /\ ret.question_code \in Columns \ {"id"}) =>
        LET c == ret.question_code
            raw == StoredRow(The(ret.voter_id))[c]
        IN  /\ HasLabel(c, raw)
            /\ ret.out.kind = "return"
            /\ ret.out.type = "str"
            /\ ret.out.value =
                   map_question_code_to_map_answer_code_to_label.val[c].val[raw]

(* C1, amended.  For such v and c, get_voter_answer(c, voter_id=v) returns *)
(* the label the answer-label mapping holds for c and the raw code stored  *)
(* for v in column c whenever the mapping holds one; when column c has no  *)
(* answer-label mapping (the id column, a data column) or the mapping of c *)
(* has no entry for that raw code, the call fails with KeyError.           *)
C1_SingleAnswer ==
    (CalledFor("get_voter_answer") /\ ret.question_code \in Columns) =>
        LET c == ret.question_code
            raw == StoredRow(The(ret.voter_id))[c]
        IN  IF HasLabel(c, raw)
            THEN ret.out =
                     Return("str",
                            map_question_code_to_map_answer_code_to_label.val[c].val[raw])
            ELSE ret.out = Raise("KeyError")

(* the scenario: rows (Q2,1,PartyA), (blank,2,PartyB), voter 300 has Q2=2  *)
C1_Witness ==
    /\ CalledFor("get_voter_answer")
    /\ variable_values_table = ValuesScenario
    /\ ret.question_code = "Q2"
    /\ ret.voter_id = Some(300)
    /\ StoredRow(300)["Q2"] = 2
    /\ ret.out = Return("str", "PartyB")

-----------------------------------------------------------------------------
(* C2 as claimed.  For a code c that is no column but has sub-questions,   *)
(* get_voter_answer(c, voter_id=v) returns a mapping with one entry per    *)
(* sub-question, from the sub-question's label to the raw value v stored   *)
(* for it.                                                                 *)
C2_AsClaimed ==
    (CalledFor("get_voter_answer") /\ MultiAnswerCode(ret.question_code)) =>
        LET c == ret.question_code
            row == StoredRow(The(ret.voter_id))
        IN  /\ ret.out.kind = "return"
            /\ ret.out.type = "dict"
            /\ Len(ret.out.value.keys) = Cardinality(SubQuestions(c))
            /\ \A s \in SubQuestions(c) :
                   /\ s \in Columns
                   /\ LabelOf(s) \in DOMAIN ret.out.value.val
                   /\ ret.out.value.val[LabelOf(s)] = row[s]

(* C2, amended.  For such c and a voter id v of the closed-answer index:   *)
(* when every sub-question code of c is a column of the closed-answers     *)
(* table, get_voter_answer(c, voter_id=v) returns a mapping whose keys are *)
(* the labels of the sub-questions of c, in the order the labels first     *)
(* appear, each label with the raw value v stored for the last             *)
(* sub-question that bears it (one entry per sub-question when their       *)
(* labels differ); when some sub-question code is no column, c itself      *)
(* included when it is a known code, the call fails with KeyError.         *)
C2_MultiAnswer ==
    (CalledFor("get_voter_answer") /\ MultiAnswerCode(ret.question_code)) =>
        LET c == ret.question_code
            row == StoredRow(The(ret.voter_id))
        IN  IF SubQuestions(c) \subseteq Columns
            THEN /\ ret.out.kind = "return"
                 /\ ret.out.type = "dict"
                 /\ DOMAIN ret.out.value.val = SubLabels(c)
                 /\ Len(ret.out.value.keys) = Cardinality(SubLabels(c))
                 /\ \A i, j \in DOMAIN ret.out.value.keys :
                        i < j => FirstPos(FirstWithLabel(c, ret.out.value.keys[i]))
                                   < FirstPos(FirstWithLabel(c, ret.out.value.keys[j]))
                 /\ \A l \in SubLabels(c) :
                        ret.out.value.val[l] = row[LastWithLabel(c, l)]
            ELSE ret.out = Raise("KeyError")

(* two sub-questions with different labels, answered differently *)
C2_Witness ==
    /\ CalledFor("get_voter_answer")
    /\ ret.question_code = "Q6_"
    /\ SubQuestions("Q6_") = {"Q6_1", "Q6_2"}
    /\ ret.out.kind = "return"
    /\ ret.out.value.keys = <<"X", "Y">>
    /\ ret.out.value.val["X"] = 2
    /\ ret.out.value.val["Y"] = 1

-----------------------------------------------------------------------------
(* C3.  For a voter id v of the closed-answer index and a code c that is   *)
(* neither a column of the closed-answers table nor a prefix of any known  *)
(* question code, get_voter_answer(c, voter_id=v) raises ValueError; it    *)
(* returns nothing.                                                        *)
C3_NotFound ==
    (/\ CalledFor("get_voter_answer")
     /\ ret.question_code \notin Columns
     /\ SubQuestions(ret.question_code) = {}) =>
        ret.out = Raise("ValueError")

(* a question code the poll does not know, asked of a known voter, while   *)
(* other codes are known                                                   *)
C3_Witness ==
    /\ CalledFor("get_voter_answer")
    /\ ret.question_code = "Q7"
    /\ KnownCodes # {}
    /\ ret.out = Raise("ValueError")

-----------------------------------------------------------------------------
(* C4 as claimed.  For a multi-answer code c, get_voter_answer_rank(c,     *)
(* voter_id=v) returns the labels of the sub-questions of c, one per       *)
(* sub-question, ordered by ascending raw value of v, sub-questions of     *)
(* equal value in their sub-question order.                                *)
C4_AsClaimed ==
    (CalledFor("get_voter_answer_rank") /\ MultiAnswerCode(ret.question_code)) =>
        LET c == ret.question_code
            row == StoredRow(The(ret.voter_id))
            n == Cardinality(SubQuestions(c))
        IN  /\ SubQuestions(c) \subseteq Columns
            /\ ret.out.kind = "return"
            /\ Len(ret.out.value) = n
            /\ \E order \in [1..n -> SubQuestions(c)] :
                   /\ \A i, j \in 1..n : i < j => order[i] # order[j]
                   /\ \A i \in 1..n : ret.out.value[i] = LabelOf(order[i])
                   /\ \A i, j \in 1..n : i < j =>
                          \/ row[order[i]] < row[order[j]]
                          \/ /\ row[order[i]] = row[order[j]]
                             /\ FirstPos(order[i]) < FirstPos(order[j])

(* C4, amended.  For such c and a voter id v of the closed-answer index:   *)
(* when every sub-question code of c is a column of the closed-answers     *)
(* table, get_voter_answer_rank(c, voter_id=v) returns each label borne by *)
(* a sub-question of c exactly once, ordered by ascending raw value, the   *)
(* value of a label being the one v stored for the last sub-question that  *)
(* bears it, and labels of equal value in the order they first appear (a   *)
(* permutation of the sub-question labels, ties in sub-question order,     *)
(* when the labels differ); when some sub-question code is no column the   *)
(* call fails with KeyError.                                               *)
C4_Rank ==
    (CalledFor("get_voter_answer_rank") /\ MultiAnswerCode(ret.question_code)) =>
        LET c == ret.question_code
            row == StoredRow(The(ret.voter_id))
            value(l) == row[LastWithLabel(c, l)]
            place(l) == FirstPos(FirstWithLabel(c, l))
        IN  IF SubQuestions(c) \subseteq Columns
            THEN /\ ret.out.kind = "return"
                 /\ ret.out.type = "list"
                 /\ Range(ret.out.value) = SubLabels(c)
                 /\ Len(ret.out.value) = Cardinality(SubLabels(c))
                 /\ \A i, j \in DOMAIN ret.out.value : i < j =>
                        \/ value(ret.out.value[i]) < value(ret.out.value[j])
                        \/ /\ value(ret.out.value[i]) = value(ret.out.value[j])
                           /\ place(ret.out.value[i]) < place(ret.out.value[j])
            ELSE ret.out = Raise("KeyError")

(* the second sub-question ranked before the first: Q6_1=2, Q6_2=1 with    *)
(* labels X, Y gives [Y, X]                                                *)
C4_Witness ==
    /\ CalledFor("get_voter_answer_rank")
    /\ ret.question_code = "Q6_"
    /\ InfoTable = << [Variable |-> "Q6_1", Label |-> "X"],
                      [Variable |-> "Q6_2", Label |-> "Y"] >>
    /\ StoredRow(The(ret.voter_id))["Q6_1"] = 2
    /\ StoredRow(The(ret.voter_id))["Q6_2"] = 1
    /\ ret.out = Return("list", <<"Y", "X">>)

-----------------------------------------------------------------------------
(* C5 as claimed.  For a multi-answer code c, get_voter_answer_approval(c, *)
(* voter_id=v) returns a set of sub-question labels that holds the label   *)
(* of a sub-question if and only if the raw value of v for that            *)
(* sub-question is greater than 0.                                         *)
C5_AsClaimed ==
    (CalledFor("get_voter_answer_approval") /\ MultiAnswerCode(ret.question_code)) =>
        LET c == ret.question_code
            row == StoredRow(The(ret.voter_id))
        IN  /\ SubQuestions(c) \subseteq Columns
            /\ ret.out.kind = "return"
            /\ ret.out.value \subseteq SubLabels(c)
            /\ \A s \in SubQuestions(c) : LabelOf(s) \in ret.out.value <=> row[s] > 0

(* C5, amended.  For such c and a voter id v of the closed-answer index:   *)
(* when every sub-question code of c is a column of the closed-answers     *)
(* table, get_voter_answer_approval(c, voter_id=v) returns the set of the  *)
(* sub-question labels l such that the raw value v stored for the last    *)
(* sub-question bearing l is greater than 0 (a label is in the set iff its *)
(* sub-question's value is greater than 0, when the labels differ), the    *)
(* same set at every call; when some sub-question code is no column the    *)
(* call fails with KeyError.                                               *)
C5_Approval ==
    (CalledFor("get_voter_answer_approval") /\ MultiAnswerCode(ret.question_code)) =>
        LET c == ret.question_code
            row == StoredRow(The(ret.voter_id))
        IN  IF SubQuestions(c) \subseteq Columns
            THEN ret.out =
                     Return("set", {l \in SubLabels(c) : row[LastWithLabel(c, l)] > 0})
            ELSE ret.out = Raise("KeyError")

(* one box left empty and one ticked: values 0, 1 with labels X, Y give    *)
(* {Y}                                                                     *)
C5_Witness ==
    /\ CalledFor("get_voter_answer_approval")
    /\ ret.question_code = "Q6_"
    /\ InfoTable = << [Variable |-> "Q6_1", Label |-> "X"],
                      [Variable |-> "Q6_2", Label |-> "Y"] >>
    /\ StoredRow(The(ret.voter_id))["Q6_1"] = 0
    /\ StoredRow(The(ret.voter_id))["Q6_2"] = 1
    /\ ret.out = Return("set", {"Y"})

-----------------------------------------------------------------------------
(* The rows a frequency_dict call counts, read off the closed-answers      *)
(* table.                                                                  *)

CalledFrequency == pc = "returned" /\ ret.op = "frequency_dict"

(* no filter, or a comparison on a column of the table *)
FilterApplies == ret.query.op = "None" \/ ret.query.column \in Columns

Matching ==
    {i \in DOMAIN ClosedRows :
        \/ ret.query.op = "None"
        \/ ret.query.op = "==" /\ ClosedRows[i][ret.query.column] = ret.query.value
        \/ ret.query.op = "!=" /\ ClosedRows[i][ret.query.column] # ret.query.value}

Answering(c, k) == {i \in Matching : ClosedRows[i][c] = k}

(* a question column every stored answer code of which has a label *)
LabelledColumn(c) ==
    /\ c \in Columns \ {"id"}
    /\ \A i \in DOMAIN ClosedRows : HasLabel(c, ClosedRows[i][c])

(* the two middle values of column c over the matching rows (one value,    *)
(* twice, when their number is odd): the median is half their sum          *)
LowerMiddle(c) ==
    Min({ClosedRows[i][c] : i \in
            {j \in Matching :
                2 * Cardinality({h \in Matching : ClosedRows[h][c] <= ClosedRows[j][c]})
                    >= Cardinality(Matching)}})
UpperMiddle(c) ==
    Min({ClosedRows[i][c] : i \in
            {j \in Matching :
                2 * Cardinality({h \in Matching : ClosedRows[h][c] <= ClosedRows[j][c]})
                    > Cardinality(Matching)}})

Abs(x) == IF x < 0 THEN -x ELSE x

-----------------------------------------------------------------------------
(* C8 as claimed.  For a question column c (every stored answer code of it *)
(* labelled) and a filter with N > 0 matching rows, frequency_dict(c,      *)
(* filter) maps exactly the answer codes k that occur in column c of the   *)
(* matching rows, each to 100 * (matching rows with c = k) / N rounded to  *)
(* two decimal places.                                                     *)
C8_AsClaimed ==
    (/\ CalledFrequency
     /\ FilterApplies
     /\ LabelledColumn(ret.question_code)
     /\ Matching # {}) =>
        LET c == ret.question_code
            N == Cardinality(Matching)
        IN  /\ ret.out.kind = "return"
            /\ DOMAIN ret.out.value.frequency = {ClosedRows[i][c] : i \in Matching}
            /\ \A k \in DOMAIN ret.out.value.frequency :
                   2 * Abs(ret.out.value.frequency[k] * N
                             - 100 * 100 * Cardinality(Answering(c, k))) <= N

-----------------------------------------------------------------------------
(* C9 as claimed.  For a question column c with an answer-label mapping    *)
(* and a filter that matches no row, frequency_dict(c, filter) fails in    *)
(* the division by the number of matching rows.                            *)
C9_AsClaimed ==
    (/\ CalledFrequency
     /\ FilterApplies
     /\ LabelledColumn(ret.question_code)
     /\ DictHas(map_question_code_to_map_answer_code_to_label, ret.question_code)
     /\ Matching = {}) =>
        ret.out = Raise("ZeroDivisionError")

(* C9, amended.  For every question code c and every filter that matches  *)
(* no row of the closed-answers table, frequency_dict(c, filter) fails and *)
(* returns no frequency table; the failure is a KeyError of a label lookup *)
(* (c has no answer-label mapping, or the median of no row, NaN, has no    *)
(* label), not of the division, which divides an empty series and raises   *)
(* nothing.                                                                *)
C9_NoMatchingRows ==
    (CalledFrequency /\ FilterApplies /\ Matching = {}) =>
        ret.out = Raise("KeyError")

(* a labelled question, a table with rows, and a filter none of them       *)
(* passes                                                                  *)
C9_Witness ==
    /\ CalledFrequency
    /\ ret.question_code = "Q2"
    /\ ret.query = [op |-> "==", column |-> "col_10", value |-> 1]
    /\ Len(ClosedRows) = 2
    /\ Matching = {}
    /\ ret.out = Raise("KeyError")

-----------------------------------------------------------------------------
(* C10 as claimed.  For a question column c with an answer-label mapping   *)
(* (every stored answer code of it labelled) and a filter with at least    *)
(* one matching row, frequency_dict(c, filter) returns, and its median key *)
(* holds the label the mapping of c has for the median of column c over    *)
(* the matching rows.                                                      *)
C10_AsClaimed ==
    (/\ CalledFrequency
     /\ FilterApplies
     /\ LabelledColumn(ret.question_code)
     /\ Matching # {}) =>
        LET c == ret.question_code
            twice == LowerMiddle(c) + UpperMiddle(c)
        IN  /\ ret.out.kind = "return"
            /\ twice % 2 = 0
            /\ HasLabel(c, twice \div 2)
            /\ ret.out.value.median =
                   map_question_code_to_map_answer_code_to_label.val[c].val[twice \div 2]

-----------------------------------------------------------------------------
(* Queries and the indices. *)

Constructed == pc \in {"ready", "returned"}

(* C11.  Once the construction is over, no step changes the                *)
(* question-label mapping, the answer-label mapping, the closed-answer     *)
(* index, the open-answer index or the list of voter ids: whatever query   *)
(* is called, and whether it returns or raises, each of the five is after  *)
(* the call what it was before it, and so what the load left.              *)
C11_Frame == [][Constructed => indices' = indices]_vars

(* C11 witness: frequency_dict has raised for a question code the          *)
(* answer-label mapping has no entry for, in a poll with voters, and the   *)
(* mapping still has no entry for it.                                      *)
C11_Witness ==
    /\ CalledFrequency
    /\ ret.out = Raise("KeyError")
    /\ ~DictHas(map_question_code_to_map_answer_code_to_label, ret.question_code)
    /\ map_question_code_to_map_answer_code_to_label # EmptyDict
    /\ Len(voter_ids) >= 2

-----------------------------------------------------------------------------
(* Sub-questions by prefix. *)

(* c is a literal prefix of s: s begins with the characters of c, in order *)
IsPrefix(c, s) ==
    /\ Len(c) <= Len(s)
    /\ \A i \in 1..Len(c) : SubSeq(s, i, i) = SubSeq(c, i, i)

Prefixed(c) == {s \in KnownCodes : IsPrefix(c, s)}

CalledSubquestionCodes == pc = "returned" /\ ret.op = "subquestion_codes"

(* C12.  subquestion_codes(c) returns, each once and in the order of the   *)
(* variable-information table, exactly the known question codes that have  *)
(* c as a literal prefix: c itself when it is known, every longer code     *)
(* that starts with c, related to c or not, and no other code.  And for a  *)
(* voter id of the closed-answer index and a code c that is no column of   *)
(* the closed-answers table, get_voter_answer takes the multi-answer       *)
(* branch (it returns a dict, or raises KeyError for a sub-question that   *)
(* is no column) exactly when that list is non-empty, and raises           *)
(* ValueError exactly when it is empty.                                    *)
C12_Subquestions ==
    /\ CalledSubquestionCodes =>
          LET c == ret.question_code
              out == ret.out.value
          IN  /\ ret.out.kind = "return"
              /\ Range(out) = Prefixed(c)
              /\ \A i, j \in DOMAIN out : i < j => FirstPos(out[i]) < FirstPos(out[j])
    /\ (CalledFor("get_voter_answer") /\ ret.question_code \notin Columns) =>
          LET c == ret.question_code
              multi == \/ ret.out.kind = "return" /\ ret.out.type = "dict"
                       \/ ret.out = Raise("KeyError")
          IN  /\ multi <=> Len(subquestion_codes(c)) > 0
              /\ multi <=> Prefixed(c) # {}
              /\ ret.out = Raise("ValueError") <=> Prefixed(c) = {}

(* C12 witness: Q7 and Q70 are both known, Q70 listed first;               *)
(* subquestion_codes("Q7") has returned both, in the order of the table.   *)
C12_Witness ==
    /\ CalledSubquestionCodes
    /\ ret.question_code = "Q7"
    /\ InfoTable # <<>>
    /\ InfoTable[1].Variable = "Q70"
    /\ ret.out = Return("list", <<"Q70", "Q7">>)

=============================================================================
